---- MODULE Spec2Model ----
(***************************************************************************)
(* guildsync (src/main.rs): one run of the command-line program is         *)
(* Cli::parse, the dispatch on the subcommand, validate_format for          *)
(* `format validate`, the rendering of the result and the process exit.    *)
(* The file system is the only state that survives a run.                  *)
(*                                                                         *)
(* A file holds JSON text.  The text is kept as its syntax tree, numbers   *)
(* as the literal that was written (sign, integer digits, fraction digits, *)
(* exponent digits); serde_json::from_str turns a literal into the number  *)
(* representation (PosInt, NegInt, Float) that as_u64 later looks at.      *)
(* Output streams are assumed writable and the command line well-formed.   *)
(***************************************************************************)
EXTENDS Integers, Sequences, FiniteSets, TLC

VARIABLES
    fs,               \* path -> file state: the file system
    pc,               \* position of the process
    cli,              \* the parsed command line (struct Cli)
    action,           \* action_for(&cli.command)
    contents,         \* validate_format: the text read
    value,            \* validate_format: the parsed serde_json::Value
    object,           \* validate_format: value.as_object()
    format,           \* validate_format: Option<String>
    format_declared,  \* validate_format: bool
    version,          \* validate_format: Option<u64>
    vresult,          \* what validate_format returned
    result,           \* main: Result<String, CliError>
    exit_code,        \* exit status of the process
    stdout,           \* lines printed by println!
    stderr,           \* lines printed by eprintln!
    hist              \* observer: one earlier validate_format call

vars == <<fs, pc, cli, action, contents, value, object, format, format_declared,
          version, vresult, result, exit_code, stdout, stderr, hist>>

locals == <<contents, value, object, format, format_declared, version, vresult>>

----------------------------------------------------------------------------
(* Bounds and program constants *)

\* how many unrecognized top-level keys an input object carries at most
MaxOther == 1

\* exit code of the NotImplemented error
ExitNotImplemented == 2
\* exit code of every other error
ExitFailure == 1
\* exit status of a process whose main returns
ExitSuccess == 0

----------------------------------------------------------------------------
(* Option, and the decimal digits of the integer limits *)

None == <<>>
Some(x) == <<x>>
IsSome(o) == o /= <<>>
Unwrap(o) == o[1]

Unbound == "unbound"

\* u64::MAX = 18446744073709551615
U64MaxDigits == <<1,8,4,4,6,7,4,4,0,7,3,7,0,9,5,5,1,6,1,5>>
\* -(i64::MIN) = 9223372036854775808
I64MinMagDigits == <<9,2,2,3,3,7,2,0,3,6,8,5,4,7,7,5,8,0,8>>

\* a <= b for decimal digit strings without leading zeros
LeqDigits(a, b) ==
    \/ Len(a) < Len(b)
    \/ /\ Len(a) = Len(b)
       /\ \/ a = b
          \/ \E i \in 1..Len(a) :
                /\ a[i] < b[i]
                /\ \A j \in 1..(i - 1) : a[j] = b[j]

----------------------------------------------------------------------------
(* JSON text: the syntax tree of a document *)

NoLit == [neg |-> FALSE, int |-> <<>>, frac |-> <<>>, exp |-> <<>>]
NoFields == [k \in {} |-> 0]

Lit(neg, int, frac, exp) == [neg |-> neg, int |-> int, frac |-> frac, exp |-> exp]

JNull == [t |-> "Null", s |-> "", n |-> NoLit, fields |-> NoFields]
JBool(b) == [t |-> "Bool", s |-> b, n |-> NoLit, fields |-> NoFields]
JNumber(lit) == [t |-> "Number", s |-> "", n |-> lit, fields |-> NoFields]
JString(s) == [t |-> "String", s |-> s, n |-> NoLit, fields |-> NoFields]
\* an array, named by its text; its elements are never looked at
JArray(s) == [t |-> "Array", s |-> s, n |-> NoLit, fields |-> NoFields]
\* an object nested in a field, named by its text
JNested(s) == [t |-> "Object", s |-> s, n |-> NoLit, fields |-> NoFields]
JObject(f) == [t |-> "Object", s |-> "", n |-> NoLit, fields |-> f]

\* number literals
Lit7 == Lit(FALSE, <<7>>, <<>>, <<>>)
Lit0 == Lit(FALSE, <<0>>, <<>>, <<>>)
LitU64Max == Lit(FALSE, U64MaxDigits, <<>>, <<>>)
\* 18446744073709551616
LitU64Over == Lit(FALSE, <<1,8,4,4,6,7,4,4,0,7,3,7,0,9,5,5,1,6,1,6>>, <<>>, <<>>)
LitMinus1 == Lit(TRUE, <<1>>, <<>>, <<>>)
LitMinus0 == Lit(TRUE, <<0>>, <<>>, <<>>)
Lit1p5 == Lit(FALSE, <<1>>, <<5>>, <<>>)
Lit1p0 == Lit(FALSE, <<1>>, <<0>>, <<>>)
Lit1e2 == Lit(FALSE, <<1>>, <<>>, <<2>>)
Lit42 == Lit(FALSE, <<4, 2>>, <<>>, <<>>)

\* the values tried for the "format" key
FormatValues ==
    { JString("dump"), JString("upload"), JString("xml"), JString("Dump"),
      JString(""), JNumber(Lit42), JBool("true"), JNull, JArray("[]"),
      JNested("{}") }

\* the values tried for the "version" key
VersionValues ==
    { JNumber(Lit7), JNumber(Lit0), JNumber(LitU64Max), JNumber(LitU64Over),
      JNumber(LitMinus1), JNumber(LitMinus0), JNumber(Lit1p5), JNumber(Lit1p0),
      JNumber(Lit1e2), JString("1"), JBool("true"), JNull, JArray("[]"),
      JNested("{}") }

\* the unrecognized keys an object may carry
OtherKeys == { "other", "guild" }
OtherKeySets == { K \in SUBSET OtherKeys : Cardinality(K) <= MaxOther }

\* the object with the given optional "format", optional "version" and the
\* unrecognized keys K (each holding true)
MkObject(f, v, K) ==
    LET keys == (IF IsSome(f) THEN {"format"} ELSE {})
                \cup (IF IsSome(v) THEN {"version"} ELSE {}) \cup K
    IN  JObject([k \in keys |->
                   IF k = "format" THEN Unwrap(f)
                   ELSE IF k = "version" THEN Unwrap(v)
                   ELSE JBool("true")])

OptionOf(S) == {None} \cup { Some(x) : x \in S }

ObjectsOver(F, V) ==
    { MkObject(f, v, K) : f \in OptionOf(F), v \in OptionOf(V), K \in OtherKeySets }

NonObjects == { JArray("[1,2,3]"), JString("hello"), JNumber(Lit42), JNull }

----------------------------------------------------------------------------
(* Files *)

Path == "in.json"
Paths == { Path }

NotFound == [state |-> "NotFound", wf |-> FALSE, doc |-> JNull]
PermissionDenied == [state |-> "PermissionDenied", wf |-> FALSE, doc |-> JNull]
\* readable text that is no JSON document (a trailing comma, an unquoted key)
Malformed == [state |-> "Readable", wf |-> FALSE, doc |-> JNull]
TextOf(doc) == [state |-> "Readable", wf |-> TRUE, doc |-> doc]

FileStates ==
    { NotFound, PermissionDenied, Malformed }
    \cup { TextOf(d) : d \in NonObjects \cup ObjectsOver(FormatValues, VersionValues) }

\* the files of the runs that are compared with an earlier run
ProbeFormatValues == { JString("dump"), JString("upload"), JString("xml"), JNumber(Lit42) }
ProbeVersionValues == { JNumber(Lit7), JNumber(LitMinus1), JString("1") }
ProbeStates ==
    { NotFound, Malformed, TextOf(JArray("[1,2,3]")) }
    \cup { TextOf(d) : d \in ObjectsOver(ProbeFormatValues, ProbeVersionValues) }

----------------------------------------------------------------------------
(* The command line *)

GuildFormats == { "Dump", "Upload" }

FormatValidate == "format.validate"
StubCommands ==
    { "discord.export", "discord.import", "terminal.opencode.attach",
      "kube.local.up", "kube.local.down", "kube.local.status",
      "kube.remote.test", "kube.remote.deploy", "ssh.exec" }
Commands == StubCommands \cup { FormatValidate }
ProbeCommands == { FormatValidate, "ssh.exec" }

NoCli == [command |-> "", in |-> "", format |-> None, json |-> FALSE]

\* as_str as it would be if it gave the variant's name instead of its token
as_str_Variant(f) == f

\* GuildFormat::as_str
as_str(f) == IF f = "Dump" THEN "dump" ELSE "upload"

\* action_for
action_for(command) == command

----------------------------------------------------------------------------
(* serde_json *)

\* the number representation serde_json::from_str builds for a literal
ParseNumber(lit) ==
    IF lit.frac /= <<>> \/ lit.exp /= <<>>
    THEN [k |-> "Float", mag |-> lit.int]
    ELSE IF ~lit.neg
    THEN IF LeqDigits(lit.int, U64MaxDigits)
         THEN [k |-> "PosInt", mag |-> lit.int]
         ELSE [k |-> "Float", mag |-> lit.int]
    ELSE IF lit.int = <<0>> \/ ~LeqDigits(lit.int, I64MinMagDigits)
         THEN [k |-> "Float", mag |-> lit.int]
         ELSE [k |-> "NegInt", mag |-> lit.int]

NoNum == [k |-> "", mag |-> <<>>]

ParseLeaf(d) == [d EXCEPT !.n = IF d.t = "Number" THEN ParseNumber(d.n) ELSE NoNum]

\* serde_json::from_str on well-formed text
from_str(d) ==
    [ParseLeaf(d) EXCEPT !.fields = [k \in DOMAIN d.fields |-> ParseLeaf(d.fields[k])]]

\* as_str as it would be if it also rendered booleans
value_as_str_Coerce(v) == IF v.t \in { "String", "Bool" } THEN Some(v.s) ELSE None

\* Value::as_str
value_as_str(v) == IF v.t = "String" THEN Some(v.s) ELSE None

\* as_u64 as it would be if every number were cast to u64
value_as_u64_Lossy(v) == IF v.t = "Number" THEN Some(v.n.mag) ELSE None

\* Value::as_u64
value_as_u64(v) ==
    IF v.t = "Number" /\ v.n.k = "PosInt" THEN Some(v.n.mag) ELSE None

\* get as it would be if an object with unrecognized keys were refused
get_Strict(obj, key) ==
    IF key \in DOMAIN obj /\ DOMAIN obj \subseteq { "format", "version" }
    THEN Some(obj[key])
    ELSE None

\* Map::get
get(obj, key) == IF key \in DOMAIN obj THEN Some(obj[key]) ELSE None

----------------------------------------------------------------------------
(* Results *)

NoErr == [kind |-> "", a |-> "", b |-> ""]
Err(kind, a, b) == [kind |-> kind, a |-> a, b |-> b]
NoSummary == [format |-> None, version |-> None, format_declared |-> FALSE]

VOk(summary) == [ok |-> TRUE, summary |-> summary, err |-> NoErr]
VErr(e) == [ok |-> FALSE, summary |-> NoSummary, err |-> e]

NoMessage == <<>>
ROk(message) == [ok |-> TRUE, message |-> message, err |-> NoErr]
RErr(e) == [ok |-> FALSE, message |-> NoMessage, err |-> e]

\* the match as it would be if it ignored case
IsRecognized_AnyCase(s) == s \in { "dump", "upload", "Dump", "Upload", "DUMP", "UPLOAD" }

\* the match on the declared format string
IsRecognized(s) == s \in { "dump", "upload" }

\* the order as it would be with the version block moved before the format block
NextStep_VersionFirst(step) ==
    CASE step = "vf_read" -> "vf_parse"
      [] step = "vf_parse" -> "vf_object"
      [] step = "vf_object" -> "vf_version"
      [] step = "vf_version" -> "vf_format"
      [] step = "vf_format" -> "vf_expected"
      [] step = "vf_expected" -> "vf_return"

\* the order of the statements of validate_format
NextStep(step) ==
    CASE step = "vf_read" -> "vf_parse"
      [] step = "vf_parse" -> "vf_object"
      [] step = "vf_object" -> "vf_format"
      [] step = "vf_format" -> "vf_expected"
      [] step = "vf_expected" -> "vf_version"
      [] step = "vf_version" -> "vf_return"

\* the exit code as it would be with the two arms exchanged
ExitCodeFor_Swapped(e) ==
    IF e.kind = "NotImplemented" THEN ExitFailure ELSE ExitNotImplemented

\* the exit code chosen for an error
ExitCodeFor(e) == IF e.kind = "NotImplemented" THEN ExitNotImplemented ELSE ExitFailure

----------------------------------------------------------------------------
(* The state after construction: no process runs, the file is anything *)

ProcessIdle ==
    /\ pc = "idle"
    /\ cli = NoCli
    /\ action = ""
    /\ contents = Unbound
    /\ value = Unbound
    /\ object = Unbound
    /\ format = Unbound
    /\ format_declared = Unbound
    /\ version = Unbound
    /\ vresult = Unbound
    /\ result = Unbound
    /\ exit_code = Unbound
    /\ stdout = <<>>
    /\ stderr = <<>>

InitOver(U) ==
    /\ fs \in [Paths -> U]
    /\ hist = None
    /\ ProcessIdle

Init == InitOver(FileStates)

----------------------------------------------------------------------------
(* The environment rewrites, creates or removes the file between two runs *)

FsWrite(U) ==
    /\ pc = "idle"
    /\ \E p \in Paths, c \in U :
          /\ c /= fs[p]
          /\ fs' = [fs EXCEPT ![p] = c]
    /\ UNCHANGED <<pc, cli, action, locals, result, exit_code, stdout, stderr, hist>>

\* Cli::parse and action_for: a run starts with a well-formed command line
Launch(C) ==
    /\ pc = "idle"
    /\ \E command \in C, json \in BOOLEAN, expected \in OptionOf(GuildFormats) :
          /\ cli' = [command |-> command,
                     in |-> IF command = FormatValidate THEN Path ELSE "",
                     format |-> IF command = FormatValidate THEN expected ELSE None,
                     json |-> json]
          /\ (command /= FormatValidate => expected = None)
          /\ action' = action_for(command)
    /\ pc' = "dispatch"
    /\ UNCHANGED <<fs, locals, result, exit_code, stdout, stderr, hist>>

\* the match on cli.command
Dispatch ==
    /\ pc = "dispatch"
    /\ IF cli.command = FormatValidate
       THEN /\ pc' = "vf_read"
            /\ UNCHANGED result
       ELSE /\ result' = RErr(Err("NotImplemented", "", ""))
            /\ pc' = "report"
    /\ UNCHANGED <<fs, cli, action, locals, exit_code, stdout, stderr, hist>>

----------------------------------------------------------------------------
(* validate_format(path = cli.in, expected = cli.format) *)

\* the `?` and `return Err(..)` exits
ReturnErr(e) ==
    /\ vresult' = VErr(e)
    /\ pc' = "map"

\* the read as it would be if it consumed the file it read
VfRead_Consume ==
    /\ pc = "vf_read"
    /\ IF fs[cli.in].state = "Readable"
       THEN /\ contents' = fs[cli.in]
            /\ fs' = [fs EXCEPT ![cli.in] = NotFound]
            /\ pc' = NextStep("vf_read")
            /\ UNCHANGED vresult
       ELSE /\ ReturnErr(Err("Io", fs[cli.in].state, ""))
            /\ UNCHANGED <<contents, fs>>
    /\ UNCHANGED <<cli, action, value, object, format, format_declared, version,
                   result, exit_code, stdout, stderr, hist>>

\* std::fs::read_to_string(path)?
VfRead ==
    /\ pc = "vf_read"
    /\ IF fs[cli.in].state = "Readable"
       THEN /\ contents' = fs[cli.in]
            /\ pc' = NextStep("vf_read")
            /\ UNCHANGED vresult
       ELSE /\ ReturnErr(Err("Io", fs[cli.in].state, ""))
            /\ UNCHANGED contents
    /\ UNCHANGED <<fs, cli, action, value, object, format, format_declared, version,
                   result, exit_code, stdout, stderr, hist>>

\* serde_json::from_str(&contents)?
VfParse ==
    /\ pc = "vf_parse"
    /\ IF contents.wf
       THEN /\ value' = from_str(contents.doc)
            /\ pc' = NextStep("vf_parse")
            /\ UNCHANGED vresult
       ELSE /\ ReturnErr(Err("Json", "syntax", ""))
            /\ UNCHANGED value
    /\ UNCHANGED <<fs, cli, action, contents, object, format, format_declared, version,
                   result, exit_code, stdout, stderr, hist>>

\* value.as_object().ok_or(CliError::NotObject)?
VfObject ==
    /\ pc = "vf_object"
    /\ IF value.t = "Object"
       THEN /\ object' = value.fields
            /\ pc' = NextStep("vf_object")
            /\ UNCHANGED vresult
       ELSE /\ ReturnErr(Err("NotObject", "", ""))
            /\ UNCHANGED object
    /\ UNCHANGED <<fs, cli, action, contents, value, format, format_declared, version,
                   result, exit_code, stdout, stderr, hist>>

\* let mut format = None; let mut format_declared = false;
\* if let Some(format_value) = object.get("format") { .. }
VfFormat ==
    /\ pc = "vf_format"
    /\ LET format_value == get(object, "format") IN
       IF ~IsSome(format_value)
       THEN /\ format' = None
            /\ format_declared' = FALSE
            /\ pc' = NextStep("vf_format")
            /\ UNCHANGED vresult
       ELSE LET format_str == value_as_str(Unwrap(format_value)) IN
            IF ~IsSome(format_str)
            THEN /\ format' = None
                 /\ format_declared' = TRUE
                 /\ ReturnErr(Err("FormatNotString", "", ""))
            ELSE IF IsRecognized(Unwrap(format_str))
            THEN /\ format' = Some(Unwrap(format_str))
                 /\ format_declared' = TRUE
                 /\ pc' = NextStep("vf_format")
                 /\ UNCHANGED vresult
            ELSE /\ format' = None
                 /\ format_declared' = TRUE
                 /\ ReturnErr(Err("UnknownFormat", Unwrap(format_str), ""))
    /\ UNCHANGED <<fs, cli, action, contents, value, object, version,
                   result, exit_code, stdout, stderr, hist>>

\* the comparison as it would be if an absent format counted as a mismatch
VfExpected_AbsentIsMismatch ==
    /\ pc = "vf_expected"
    /\ IF /\ IsSome(cli.format)
          /\ format /= Some(as_str(Unwrap(cli.format)))
       THEN ReturnErr(Err("FormatMismatch", as_str(Unwrap(cli.format)),
                          IF IsSome(format) THEN Unwrap(format) ELSE "missing"))
       ELSE /\ pc' = NextStep("vf_expected")
            /\ UNCHANGED vresult
    /\ UNCHANGED <<fs, cli, action, contents, value, object, format, format_declared,
                   version, result, exit_code, stdout, stderr, hist>>

\* if let Some(expected_format) = expected { if let Some(found) = format { .. } }
VfExpected ==
    /\ pc = "vf_expected"
    /\ IF /\ IsSome(cli.format)
          /\ IsSome(format)
          /\ Unwrap(format) /= as_str(Unwrap(cli.format))
       THEN ReturnErr(Err("FormatMismatch", as_str(Unwrap(cli.format)), Unwrap(format)))
       ELSE /\ pc' = NextStep("vf_expected")
            /\ UNCHANGED vresult
    /\ UNCHANGED <<fs, cli, action, contents, value, object, format, format_declared,
                   version, result, exit_code, stdout, stderr, hist>>

\* let mut version = None; if let Some(version_value) = object.get("version") { .. }
VfVersion ==
    /\ pc = "vf_version"
    /\ LET version_value == get(object, "version") IN
       IF ~IsSome(version_value)
       THEN /\ version' = None
            /\ pc' = NextStep("vf_version")
            /\ UNCHANGED vresult
       ELSE LET version_num == value_as_u64(Unwrap(version_value)) IN
            IF IsSome(version_num)
            THEN /\ version' = Some(Unwrap(version_num))
                 /\ pc' = NextStep("vf_version")
                 /\ UNCHANGED vresult
            ELSE /\ version' = None
                 /\ ReturnErr(Err("InvalidVersionType", "", ""))
    /\ UNCHANGED <<fs, cli, action, contents, value, object, format, format_declared,
                   result, exit_code, stdout, stderr, hist>>

\* the summary as it would be if format_declared were left at its default
VfReturn_Undeclared ==
    /\ pc = "vf_return"
    /\ vresult' = VOk([format |-> format, version |-> version,
                       format_declared |-> FALSE])
    /\ pc' = "map"
    /\ UNCHANGED <<fs, cli, action, contents, value, object, format, format_declared,
                   version, result, exit_code, stdout, stderr, hist>>

\* Ok(ValidationSummary { format, version, format_declared })
VfReturn ==
    /\ pc = "vf_return"
    /\ vresult' = VOk([format |-> format, version |-> version,
                       format_declared |-> format_declared])
    /\ pc' = "map"
    /\ UNCHANGED <<fs, cli, action, contents, value, object, format, format_declared,
                   version, result, exit_code, stdout, stderr, hist>>

----------------------------------------------------------------------------
(* main, after validate_format *)

\* the closure given to .map: the details of the success message
Details(expected, summary) ==
    (IF IsSome(expected)
     THEN <<<<"expected", as_str(Unwrap(expected))>>>>
          \o (IF ~summary.format_declared THEN <<<<"format", "missing">>>> ELSE <<>>)
     ELSE <<>>)
    \o (IF IsSome(summary.format) THEN <<<<"format", Unwrap(summary.format)>>>> ELSE <<>>)
    \o (IF IsSome(summary.version) THEN <<<<"version", Unwrap(summary.version)>>>> ELSE <<>>)

\* validate_format(..).map(|summary| ..)
MapSummary ==
    /\ pc = "map"
    /\ result' = IF vresult.ok
                 THEN ROk(<<"valid JSON input">> \o Details(cli.format, vresult.summary))
                 ELSE RErr(vresult.err)
    /\ pc' = "report"
    /\ UNCHANGED <<fs, cli, action, locals, exit_code, stdout, stderr, hist>>

\* match result { Ok(message) => print, Err(err) => print and process::exit }
Report ==
    /\ pc = "report"
    /\ IF result.ok
       THEN /\ stdout' = Append(stdout, <<cli.json, TRUE, action, result.message>>)
            /\ exit_code' = ExitSuccess
            /\ UNCHANGED stderr
       ELSE /\ exit_code' = ExitCodeFor(result.err)
            /\ IF cli.json
               THEN /\ stdout' = Append(stdout, <<TRUE, FALSE, action, result.err>>)
                    /\ UNCHANGED stderr
               ELSE /\ stderr' = Append(stderr, <<action, result.err>>)
                    /\ UNCHANGED stdout
    /\ pc' = "exited"
    /\ UNCHANGED <<fs, cli, action, locals, result, hist>>

\* the process is gone; nothing of it remains but the file system
Reap ==
    /\ pc = "exited"
    /\ pc' = "idle"
    /\ cli' = NoCli
    /\ action' = ""
    /\ contents' = Unbound
    /\ value' = Unbound
    /\ object' = Unbound
    /\ format' = Unbound
    /\ format_declared' = Unbound
    /\ version' = Unbound
    /\ vresult' = Unbound
    /\ result' = Unbound
    /\ exit_code' = Unbound
    /\ stdout' = <<>>
    /\ stderr' = <<>>
    /\ UNCHANGED <<fs, hist>>

\* the observer keeps one finished validate_format call to compare later ones with
Remember ==
    /\ pc = "exited"
    /\ cli.command = FormatValidate
    /\ hist = None
    /\ hist' = Some([file |-> fs[cli.in], expected |-> cli.format, result |-> vresult])
    /\ UNCHANGED <<fs, pc, cli, action, locals, result, exit_code, stdout, stderr>>

----------------------------------------------------------------------------

Run ==
    \/ Dispatch
    \/ VfRead
    \/ VfParse
    \/ VfObject
    \/ VfFormat
    \/ VfExpected
    \/ VfVersion
    \/ VfReturn
    \/ MapSummary
    \/ Report
    \/ Reap

Next ==
    \/ FsWrite(FileStates)
    \/ Launch(Commands)
    \/ Run

Spec == Init /\ [][Next]_vars

\* runs over the probe files, one of them remembered
InitHist == InitOver(ProbeStates)

NextHist ==
    \/ FsWrite(ProbeStates)
    \/ Launch(ProbeCommands)
    \/ Run
    \/ Remember

SpecHist == InitHist /\ [][NextHist]_vars

----------------------------------------------------------------------------
(* What the properties speak about: a finished validate_format call, the   *)
(* file it was given and the expected format.  These definitions read the  *)
(* file as it was written, not the values validate_format computed.        *)

Finished == cli.command = FormatValidate /\ pc \in { "map", "report", "exited" }

InFile == fs[cli.in]
Expected == cli.format

IsObjectFile(f) == f.state = "Readable" /\ f.wf /\ f.doc.t = "Object"
HasKey(f, k) == k \in DOMAIN f.doc.fields
Field(f, k) == f.doc.fields[k]

Tokens == { "dump", "upload" }
TokenOf(e) == CASE e = "Dump" -> "dump" [] e = "Upload" -> "upload"

\* a number written without sign, fraction or exponent, at most u64::MAX
IsU64Literal(v) ==
    /\ v.t = "Number"
    /\ ~v.n.neg
    /\ v.n.frac = <<>>
    /\ v.n.exp = <<>>
    /\ LeqDigits(v.n.int, U64MaxDigits)

DeclaresString(f) == HasKey(f, "format") /\ Field(f, "format").t = "String"
DeclaresToken(f) == DeclaresString(f) /\ Field(f, "format").s \in Tokens

\* the seven rules, each read off the file and the expected format
RuleBroken(f, e) ==
    << f.state /= "Readable",
       f.state = "Readable" /\ ~f.wf,
       f.state = "Readable" /\ f.wf /\ f.doc.t /= "Object",
       HasKey(f, "format") /\ ~DeclaresString(f),
       DeclaresString(f) /\ ~DeclaresToken(f),
       IsSome(e) /\ DeclaresToken(f) /\ Field(f, "format").s /= TokenOf(Unwrap(e)),
       HasKey(f, "version") /\ ~IsU64Literal(Field(f, "version")) >>

RuleError ==
    << "Io", "Json", "NotObject", "FormatNotString", "UnknownFormat",
       "FormatMismatch", "InvalidVersionType" >>

FirstBroken(f, e) ==
    LET b == RuleBroken(f, e) IN
    IF \E i \in 1..7 : b[i]
    THEN RuleError[CHOOSE i \in 1..7 : b[i] /\ \A j \in 1..(i - 1) : ~b[j]]
    ELSE ""

FormatChecksPass(f, e) ==
    LET b == RuleBroken(f, e) IN IsObjectFile(f) /\ ~b[4] /\ ~b[5] /\ ~b[6]

\* C1: a finished validate_format call reports the error of the earliest
\* broken rule in the order read, parse, object, format-is-string,
\* format-is-recognized, format-equals-expected, version; it succeeds exactly
\* when no rule is broken.
C1_FirstBrokenRuleReported ==
    Finished =>
        /\ vresult.err.kind = FirstBroken(InFile, Expected)
        /\ vresult.ok <=> FirstBroken(InFile, Expected) = ""

\* C1 witness: a file breaks the format-is-string rule and the version rule
\* at once, and the format error is the one reported.
C1_Witness ==
    /\ Finished
    /\ RuleBroken(InFile, Expected)[4]
    /\ RuleBroken(InFile, Expected)[7]
    /\ vresult.err.kind = "FormatNotString"

\* C2: for an object without a "format" key and any expected format, the call
\* never fails with FormatMismatch: it fails with InvalidVersionType when the
\* version rule is broken and otherwise succeeds with format = None and
\* format_declared = false.
C2_AbsentFormatNeverMismatch ==
    (Finished /\ IsObjectFile(InFile) /\ ~HasKey(InFile, "format")) =>
        /\ vresult.err.kind /= "FormatMismatch"
        /\ IF RuleBroken(InFile, Expected)[7]
           THEN vresult = VErr(Err("InvalidVersionType", "", ""))
           ELSE /\ vresult.ok
                /\ vresult.summary.format = None
                /\ vresult.summary.format_declared = FALSE
                /\ (~HasKey(InFile, "version") => vresult.summary.version = None)

\* C2 witness: {"other":true} with expected = Upload succeeds with format None,
\* version None, format_declared false.
C2_Witness ==
    /\ Finished
    /\ InFile = TextOf(MkObject(None, None, {"other"}))
    /\ Expected = Some("Upload")
    /\ vresult = VOk([format |-> None, version |-> None, format_declared |-> FALSE])

\* C3: with an expected format and a declared recognized token, the call fails
\* with FormatMismatch exactly when the token differs from the expected
\* format's canonical token, carrying expected = that canonical token and
\* found = the declared token; when they are equal it goes on to the version
\* check with format = Some(token).
C3_MismatchIffTokensDiffer ==
    (Finished /\ IsObjectFile(InFile) /\ IsSome(Expected) /\ DeclaresToken(InFile)) =>
        LET found == Field(InFile, "format").s
            want == TokenOf(Unwrap(Expected))
        IN  IF found /= want
            THEN vresult = VErr(Err("FormatMismatch", want, found))
            ELSE /\ format = Some(found)
                 /\ IF RuleBroken(InFile, Expected)[7]
                    THEN vresult = VErr(Err("InvalidVersionType", "", ""))
                    ELSE vresult.ok /\ vresult.summary.format = Some(found)

\* C3 witness: "format":"upload" with expected = Dump fails with
\* expected "dump", found "upload".
C3_Witness ==
    /\ Finished
    /\ DeclaresToken(InFile)
    /\ Field(InFile, "format").s = "upload"
    /\ Expected = Some("Dump")
    /\ vresult = VErr(Err("FormatMismatch", "dump", "upload"))

\* C4: for an object whose "format" is a string other than "dump" and
\* "upload", the call fails with UnknownFormat carrying that string, whatever
\* expected and "version" are.
C4_UnknownFormatCarriesString ==
    (Finished /\ IsObjectFile(InFile) /\ DeclaresString(InFile) /\ ~DeclaresToken(InFile)) =>
        vresult = VErr(Err("UnknownFormat", Field(InFile, "format").s, ""))

\* C4 witness: an unknown format string together with an expected format and
\* a version that is not an unsigned integer.
C4_Witness ==
    /\ Finished
    /\ IsObjectFile(InFile)
    /\ DeclaresString(InFile)
    /\ Field(InFile, "format").s = "Dump"
    /\ IsSome(Expected)
    /\ RuleBroken(InFile, Expected)[7]
    /\ vresult.err.kind = "UnknownFormat"

\* C5: for an object whose "format" key holds a non-string value, the call
\* fails with FormatNotString, whatever "version" and expected are.
C5_NonStringFormatRejected ==
    (Finished /\ IsObjectFile(InFile) /\ HasKey(InFile, "format") /\ ~DeclaresString(InFile)) =>
        vresult = VErr(Err("FormatNotString", "", ""))

\* C5 witness: "format" holds a boolean, "version" is valid, an expected
\* format is given, and the call fails with FormatNotString.
C5_Witness ==
    /\ Finished
    /\ IsObjectFile(InFile)
    /\ HasKey(InFile, "format")
    /\ Field(InFile, "format").t = "Bool"
    /\ HasKey(InFile, "version")
    /\ IsU64Literal(Field(InFile, "version"))
    /\ IsSome(Expected)
    /\ vresult.err.kind = "FormatNotString"

\* C6: for an object that passes the format checks the outcome is decided by
\* "version" alone: absent gives success with version None; an unsigned
\* integer literal within u64 gives success with version Some(that integer);
\* any other value gives InvalidVersionType.
C6_VersionDecides ==
    (Finished /\ FormatChecksPass(InFile, Expected)) =>
        IF ~HasKey(InFile, "version")
        THEN vresult.ok /\ vresult.summary.version = None
        ELSE IF IsU64Literal(Field(InFile, "version"))
        THEN vresult.ok /\ vresult.summary.version = Some(Field(InFile, "version").n.int)
        ELSE vresult = VErr(Err("InvalidVersionType", "", ""))

\* C6 witness: "version" is 18446744073709551616, one past the unsigned 64-bit
\* range, and the call fails with InvalidVersionType.
C6_Witness ==
    /\ Finished
    /\ FormatChecksPass(InFile, Expected)
    /\ HasKey(InFile, "version")
    /\ Field(InFile, "version") = JNumber(LitU64Over)
    /\ vresult.err.kind = "InvalidVersionType"

\* C7: in every summary returned, format is Some only if format_declared is
\* true and the string is "dump" or "upload"; a file whose declared format is
\* not a recognized string yields no summary.
C7_SummaryFormatInvariant ==
    Finished =>
        /\ (vresult.ok /\ IsSome(vresult.summary.format)) =>
              /\ vresult.summary.format_declared = TRUE
              /\ Unwrap(vresult.summary.format) \in Tokens
        /\ (HasKey(InFile, "format") /\ ~DeclaresToken(InFile)) => ~vresult.ok

\* C7 witness: a summary with format = Some("dump").
C7_Witness ==
    /\ Finished
    /\ vresult.ok
    /\ vresult.summary.format = Some("dump")
    /\ vresult.summary.format_declared = TRUE

\* C10: a finished run of any subcommand other than format validate holds the
\* NotImplemented error and exit code 2; a failed format validate exits with 1
\* on one of its seven errors; format validate never exits with 2; a non-zero
\* exit code occurs only on an error result.
C10_ExitCodes ==
    pc = "exited" =>
        /\ cli.command /= FormatValidate =>
              /\ result = RErr(Err("NotImplemented", "", ""))
              /\ exit_code = 2
        /\ (cli.command = FormatValidate /\ ~result.ok) =>
              /\ exit_code = 1
              /\ \E i \in 1..7 : result.err.kind = RuleError[i]
        /\ cli.command = FormatValidate => exit_code /= 2
        /\ exit_code /= 0 => ~result.ok

\* C10 witness: a format validate run that failed with FormatMismatch has
\* exited with code 1.
C10_Witness ==
    /\ pc = "exited"
    /\ cli.command = FormatValidate
    /\ result.err.kind = "FormatMismatch"
    /\ exit_code = 1

----------------------------------------------------------------------------
(* Two calls: the remembered one and the one that has just finished *)

Remembered == Unwrap(hist)

SameKey(f, g, k) ==
    /\ HasKey(f, k) <=> HasKey(g, k)
    /\ HasKey(f, k) => Field(f, k) = Field(g, k)

\* C8: two objects that agree on the presence and value of "format" and of
\* "version", validated with the same expected format, give the same result,
\* whatever other keys they carry.
C8_OtherKeysIgnored ==
    ( /\ Finished
      /\ IsSome(hist)
      /\ IsObjectFile(InFile)
      /\ IsObjectFile(Remembered.file)
      /\ SameKey(InFile, Remembered.file, "format")
      /\ SameKey(InFile, Remembered.file, "version")
      /\ Expected = Remembered.expected )
    => vresult = Remembered.result

\* C8 witness: the two files differ, only in other keys, and both calls are done.
C8_Witness ==
    /\ Finished
    /\ IsSome(hist)
    /\ IsObjectFile(InFile)
    /\ IsObjectFile(Remembered.file)
    /\ InFile /= Remembered.file
    /\ HasKey(InFile, "format")
    /\ HasKey(InFile, "version")
    /\ SameKey(InFile, Remembered.file, "format")
    /\ SameKey(InFile, Remembered.file, "version")
    /\ Expected = Remembered.expected
    /\ vresult = Remembered.result

====
